---- MODULE Spec2Model ----
(***************************************************************************)
(* Model of package metric (metric.go): the lock-free counter, the         *)
(* windowed timeseries with its read-triggered roll, and newTimeseries.    *)
(* Durations and instants are counted in whole seconds (time.Second == 1). *)
(* Counter values are the float64 values themselves; only small integral   *)
(* values occur, for which float64 addition is exact and Float64bits is    *)
(* one-to-one.                                                             *)
(***************************************************************************)
EXTENDS Integers, Sequences, FiniteSets, TLC

VARIABLES
    frame,      \* the frame string handed to NewCounter (a sequence of characters)
    status,     \* "unbuilt" | "ok" | "panic": outcome of newTimeseries
    clock,      \* the value the package variable `now` returns
    tsnow,      \* timeseries.now
    interval,   \* timeseries.interval
    samples,    \* timeseries.samples: sequence of counter ids (pointers)
    count,      \* counter.count of every allocated counter, by id
    out,        \* what the most recent operation returned
    op,         \* the most recent operation and its argument
    shifts,     \* the value `roll` computed inside the most recent operation
    adds,       \* number of Add calls made so far
    cur,        \* history: the last read, if no other operation followed it
    prev,       \* history: the read right before cur, if nothing came between
    base,       \* history: bucket values expected at the next read
    addRun,     \* history: the current run of Adds with no other operation on the series
    fix,        \* history: position in the TestTimeline operation sequence
    chain,      \* history: the first of a run of reads with a non-decreasing clock
    mu,         \* timeseries.Mutex: 0 when free, else the goroutine holding it
    pc,         \* where each goroutine stands in the call it is making
    loc,        \* the local variables of each goroutine's call
    calls,      \* number of calls made so far by all goroutines
    issued,     \* history: sum of the deltas of the Add calls made so far
    resetSeen,  \* history: some Reset has been called
    prevRead,   \* history: the last read to take the lock, until it returns (else 0)
    creditO,    \* history: deltas of the Adds that returned since a read last returned
    creditA,    \* history: as creditO, for Adds invoked after the last read returned
    lateAdd     \* history: some timeseries.Add took effect after a Reset had begun

serVars == <<frame, status, clock, tsnow, interval, samples, count>>
histVars == <<out, op, shifts, adds, cur, prev, base, addRun, fix, chain>>
concVars == <<mu, pc, loc, calls, issued, resetSeen, prevRead, creditO, creditA, lateAdd>>
vars == <<serVars, histVars, concVars>>

----------------------------------------------------------------------------
(* Bounds of the model. *)

MaxFrameLen == 5    \* longest frame string drawn in SpecNew
MaxTime == 3        \* largest instant the mocked clock is set to
MaxAdds == 3        \* Add calls issued in one behaviour
NThreads == 2       \* goroutines calling concurrently
MaxCalls == 3       \* calls made by all goroutines together in one behaviour
MaxConcTime == 2    \* largest instant the clock reaches while goroutines run

----------------------------------------------------------------------------
(* time.Duration units, in seconds. *)

Second == 1
Minute == 60
Hour == 3600

Quot(a, b) ==
    \* Go integer division: truncated toward zero
    IF b = 0 THEN 0
    ELSE LET q == (IF a < 0 THEN -a ELSE a) \div (IF b < 0 THEN -b ELSE b)
         IN IF (a < 0) = (b < 0) THEN q ELSE -q

units(u) ==
    CASE u = "s" -> Second
      [] u = "m" -> Minute
      [] u = "h" -> Hour
      [] u = "d" -> Hour * 24
      [] u = "w" -> Hour * 24 * 7
      [] u = "M" -> Hour * 24 * 7 * 30
      [] u = "y" -> Hour * 24 * 7 * 365
      [] OTHER -> 0

----------------------------------------------------------------------------
(* fmt.Sscanf(frame, "%d%c%d%c", ...) *)

Digits == {"0", "1", "2", "3", "4", "5", "6", "7", "8", "9"}

DigitVal(ch) ==
    CASE ch = "0" -> 0 [] ch = "1" -> 1 [] ch = "2" -> 2 [] ch = "3" -> 3
      [] ch = "4" -> 4 [] ch = "5" -> 5 [] ch = "6" -> 6 [] ch = "7" -> 7
      [] ch = "8" -> 8 [] ch = "9" -> 9

RECURSIVE DigitsEnd(_, _)
DigitsEnd(s, i) ==
    \* first position >= i that holds no digit
    IF i <= Len(s) /\ s[i] \in Digits THEN DigitsEnd(s, i + 1) ELSE i

RECURSIVE NumVal(_, _, _, _)
NumVal(s, i, j, acc) ==
    \* decimal value of s[i..j-1]
    IF i >= j THEN acc ELSE NumVal(s, i + 1, j, acc * 10 + DigitVal(s[i]))

ScanDigits(s, i, neg, d0, d1) ==
    \* the digits s[d0..d1-1] read for a %d that started at position i
    IF d1 = d0 THEN [ok |-> FALSE, val |-> 0, next |-> i]
    ELSE [ok |-> TRUE,
          val |-> IF neg THEN -NumVal(s, d0, d1, 0) ELSE NumVal(s, d0, d1, 0),
          next |-> d1]

ScanSigned(s, i, neg, d0) == ScanDigits(s, i, neg, d0, DigitsEnd(s, d0))

ScanInt(s, i) ==
    \* verb %d at position i: optional sign, then at least one digit
    IF i <= Len(s) /\ s[i] = "-" THEN ScanSigned(s, i, TRUE, i + 1)
    ELSE IF i <= Len(s) /\ s[i] = "+" THEN ScanSigned(s, i, FALSE, i + 1)
    ELSE ScanSigned(s, i, FALSE, i)

ScanRune(s, i) ==
    \* verb %c at position i: the next character, whatever it is
    IF i > Len(s) THEN [ok |-> FALSE, val |-> "", next |-> i]
    ELSE [ok |-> TRUE, val |-> s[i], next |-> i + 1]

\* Scanning stops at the first verb that fails; the variables after it keep
\* their zero values.
Scanned(a, b, c, d) ==
    [totalNum |-> IF a.ok THEN a.val ELSE 0,
     totalUnit |-> IF a.ok /\ b.ok THEN b.val ELSE "",
     intervalNum |-> IF a.ok /\ b.ok /\ c.ok THEN c.val ELSE 0,
     intervalUnit |-> IF a.ok /\ b.ok /\ c.ok /\ d.ok THEN d.val ELSE ""]

Sscanf4(s, a, b, c) == Scanned(a, b, c, ScanRune(s, c.next))

Sscanf3(s, a, b) == Sscanf4(s, a, b, ScanInt(s, b.next))

Sscanf2(s, a) == Sscanf3(s, a, ScanRune(s, a.next))

Sscanf(s) == Sscanf2(s, ScanInt(s, 1))

----------------------------------------------------------------------------
(* newTimeseries *)

FrameInterval(p) ==
    \* p: the four scanned variables
    IF units(p.intervalUnit) * p.intervalNum = 0 THEN Minute
    ELSE units(p.intervalUnit) * p.intervalNum

FrameTotal(p, ivl) ==
    IF units(p.totalUnit) * p.totalNum = 0 THEN ivl * 15
    ELSE units(p.totalUnit) * p.totalNum

FrameN(p, ivl) == Quot(FrameTotal(p, ivl), ivl)

makeSeries(frameStart, ivl, n) ==
    \* make([]Metric, n, n) panics for n < 0
    IF n < 0
    THEN [status |-> "panic", interval |-> 0, samples |-> <<>>,
          count |-> <<>>, now |-> 0]
    ELSE [status |-> "ok", interval |-> ivl,
          samples |-> [i \in 1..n |-> i],
          count |-> [i \in 1..n |-> 0],
          now |-> frameStart]

seriesOf(frameStart, p, ivl) == makeSeries(frameStart, ivl, FrameN(p, ivl))

newSeries(frameStart, p) == seriesOf(frameStart, p, FrameInterval(p))

newTimeseries(frameStart, s) == newSeries(frameStart, Sscanf(s))

----------------------------------------------------------------------------
(* The ring of a timeseries: r.samples (counter ids) and r.count (their values). *)

Ring == [samples |-> samples, count |-> count]

Values(r) == [i \in 1..Len(r.samples) |-> r.count[r.samples[i]]]

AllZero(v) == \A i \in 1..Len(v) : v[i] = 0

counterReset_Keep(cnt, id) == cnt

counterReset(cnt, id) == [cnt EXCEPT ![id] = 0]

counterAdd(cnt, id, n) == [cnt EXCEPT ![id] = @ + n]

counterMarshalJSON(cnt, id) == [type |-> "c", count |-> cnt[id]]

RECURSIVE ResetFrom(_, _)
ResetFrom(r, i) ==
    \* the range loop of timeseries.Reset from slot i on
    IF i > Len(r.samples) THEN r
    ELSE ResetFrom([r EXCEPT !.count = counterReset(@, r.samples[i])], i + 1)

tsReset_HeadOnly(r) == [r EXCEPT !.count = counterReset(@, r.samples[1])]

tsReset(r) == ResetFrom(r, 1)

rotate_NoReset(r) ==
    LET n == Len(r.samples)
    IN [samples |-> [j \in 1..n |-> IF j = 1 THEN r.samples[n] ELSE r.samples[j - 1]],
        count |-> r.count]

rotate(r) ==
    \* one pass of the outer loop of roll: the tail bucket becomes the head and
    \* is reset, every other bucket moves one slot toward the tail
    LET n == Len(r.samples)
        tmp == r.samples[n]
    IN [samples |-> [j \in 1..n |-> IF j = 1 THEN tmp ELSE r.samples[j - 1]],
        count |-> counterReset(r.count, tmp)]

rotateTimes_Once(r, k) == IF k <= 0 THEN r ELSE rotate(r)

RECURSIVE rotateTimes(_, _)
rotateTimes(r, k) == IF k <= 0 THEN r ELSE rotateTimes(rotate(r), k - 1)

Round_None(t, d) == t

Round(t, d) ==
    \* time.Time.Round: nearest multiple of d, halfway values round up;
    \* t unchanged when d <= 0
    IF d <= 0 THEN t
    ELSE LET m == t % d IN IF m + m < d THEN t - m ELSE t + d - m

rollCount(t, ref, ivl) == Quot(Round(t, ivl) - Round(ref, ivl), ivl)

rollRing_NegativeResets(r, k) ==
    IF k = 0 THEN r
    ELSE IF k < 0 \/ k >= Len(r.samples) THEN tsReset(r)
    ELSE rotateTimes(r, k)

rollRing_ResetEarly(r, k) ==
    IF k <= 0 THEN r
    ELSE IF k >= Len(r.samples) - 1 THEN tsReset(r)
    ELSE rotateTimes(r, k)

rollRing(r, k) ==
    \* the part of roll() after `roll` has been computed as k
    IF k <= 0 THEN r
    ELSE IF k >= Len(r.samples) THEN tsReset(r)
    ELSE rotateTimes(r, k)

roll(r, t, ref, ivl) ==
    LET k == rollCount(t, ref, ivl)
        q == rollRing(r, k)
    IN [samples |-> q.samples, count |-> q.count, now |-> t, roll |-> k]

marshalSeries(r, ivl) ==
    \* the struct MarshalJSON encodes: interval in seconds, then the samples
    [kind |-> "String", interval |-> ivl,
     samples |-> [i \in 1..Len(r.samples) |-> counterMarshalJSON(r.count, r.samples[i])],
     time |-> 0]

getValues(r) ==
    [kind |-> "Get", interval |-> 0, samples |-> Values(r), time |-> 0]

OutCounts(o) ==
    \* the bucket counts a read returned, head first
    IF o.kind = "String" THEN [i \in 1..Len(o.samples) |-> o.samples[i].count]
    ELSE IF o.kind = "Get" THEN o.samples
    ELSE <<>>

NoOut == [kind |-> "none", interval |-> 0, samples |-> <<>>, time |-> 0]

----------------------------------------------------------------------------
(* History kept for the claims; none of it is read by the program. *)

Deltas == {1, 5}

IsRead(name) == name \in {"String", "Get"}

FixNext(f, name, arg) ==
    \* TestTimeline's sequence s0 -Add(1)-> a1 -read-> r1 -clock 1-> t1 -read-> r2
    \* -Add(5)-> a5 -read-> r3 -clock 3-> t3 -read-> r4 -read-> r5, and the
    \* variant t1 -Add(5)-> l5 -read-> lr -read-> lr2 with no read at t1
    CASE f = "s0" /\ name = "Add" /\ arg = 1 -> "a1"
      [] f = "a1" /\ IsRead(name) -> "r1"
      [] f = "r1" /\ name = "SetClock" /\ arg = 1 -> "t1"
      [] f = "t1" /\ IsRead(name) -> "r2"
      [] f = "r2" /\ name = "Add" /\ arg = 5 -> "a5"
      [] f = "a5" /\ IsRead(name) -> "r3"
      [] f = "r3" /\ name = "SetClock" /\ arg = 3 -> "t3"
      [] f = "t3" /\ IsRead(name) -> "r4"
      [] f = "r4" /\ IsRead(name) -> "r5"
      [] f = "t1" /\ name = "Add" /\ arg = 5 -> "l5"
      [] f = "l5" /\ IsRead(name) -> "lr"
      [] f = "lr" /\ IsRead(name) -> "lr2"
      [] OTHER -> "off"

Advance ==
    \* whole intervals the clock is ahead of the reference time left by the
    \* previous read (0 when there is none, or the distance is not whole)
    IF base # <<>> /\ clock > tsnow /\ (clock - tsnow) % interval = 0
    THEN (clock - tsnow) \div interval ELSE 0

HistRead(name, o, after) ==
    \* a read that returned o and left the ring as `after`
    /\ op' = [name |-> name, arg |-> 0]
    /\ prev' = cur
    /\ cur' = <<[out |-> OutCounts(o), before |-> Values(Ring), clk |-> clock,
                 adv |-> Advance, ref |-> tsnow, ring |-> samples, exp |-> IF base = <<>> THEN <<>> ELSE base[1]]>>
    /\ base' = <<Values(after)>>
    /\ addRun' = <<>>
    /\ fix' = FixNext(fix, name, 0)
    /\ adds' = adds
    /\ chain' = IF chain = <<>>
                THEN <<[vals |-> Values(after), t |-> clock]>>
                ELSE chain

HistAdd(n) ==
    /\ op' = [name |-> "Add", arg |-> n]
    /\ prev' = <<>>
    /\ cur' = <<>>
    /\ base' = IF base = <<>> THEN <<>> ELSE <<[base[1] EXCEPT ![1] = @ + n]>>
    /\ addRun' = IF addRun = <<>>
                 THEN <<[vals |-> Values(Ring), samples |-> samples, now |-> tsnow,
                         sum |-> n, calls |-> 1]>>
                 ELSE <<[addRun[1] EXCEPT !.sum = @ + n, !.calls = @ + 1]>>
    /\ fix' = FixNext(fix, "Add", n)
    /\ adds' = adds + 1
    /\ chain' = <<>>
    /\ out' = NoOut
    /\ shifts' = 0

HistOther(name, arg) ==
    \* Reset, Sync, GetTime
    /\ op' = [name |-> name, arg |-> arg]
    /\ prev' = <<>>
    /\ cur' = <<>>
    /\ base' = <<>>
    /\ addRun' = <<>>
    /\ fix' = "off"
    /\ shifts' = 0
    /\ adds' = adds
    /\ chain' = <<>>

----------------------------------------------------------------------------
(* The operations of a timeseries, each run to completion (one caller). *)

Built == status = "ok"

tsAdd_Rolling(r, n) ==
    LET q == rollRing(r, rollCount(clock, tsnow, interval))
    IN [samples |-> q.samples, count |-> counterAdd(q.count, q.samples[1], n)]

tsAdd_Tail(r, n) ==
    [r EXCEPT !.count = counterAdd(@, r.samples[Len(r.samples)], n)]

tsAdd(r, n) ==
    \* ts.samples[0].Add(n); roll() is not called
    [r EXCEPT !.count = counterAdd(@, r.samples[1], n)]

Add(n) ==
    /\ Built
    /\ Len(samples) >= 1
    /\ adds < MaxAdds
    /\ LET q == tsAdd(Ring, n)
       IN /\ samples' = q.samples
          /\ count' = q.count
    /\ HistAdd(n)
    /\ UNCHANGED <<frame, status, clock, tsnow, interval>>
    /\ UNCHANGED concVars

MarshalJSON_RollFirst ==
    LET q == roll(Ring, clock, tsnow, interval)
    IN [out |-> marshalSeries(q, interval \div Second), samples |-> q.samples,
        count |-> q.count, now |-> q.now, roll |-> q.roll]

MarshalJSON ==
    \* json.Marshal of the samples first, ts.roll() after it
    LET val == marshalSeries(Ring, interval \div Second)
        q == roll(Ring, clock, tsnow, interval)
    IN [out |-> val, samples |-> q.samples, count |-> q.count, now |-> q.now,
        roll |-> q.roll]

Get ==
    LET values == getValues(Ring)
        q == roll(Ring, clock, tsnow, interval)
    IN [out |-> values, samples |-> q.samples, count |-> q.count, now |-> q.now,
        roll |-> q.roll]

ReadDone(name, q) ==
    /\ out' = q.out
    /\ samples' = q.samples
    /\ count' = q.count
    /\ tsnow' = q.now
    /\ shifts' = q.roll
    /\ HistRead(name, q.out, q)
    /\ UNCHANGED <<frame, status, clock, interval>>
    /\ UNCHANGED concVars

String ==
    /\ Built
    /\ ReadDone("String", MarshalJSON)

GetCall ==
    /\ Built
    /\ ReadDone("Get", Get)

Reset_Rebase ==
    /\ Built
    /\ LET q == tsReset(Ring)
       IN /\ samples' = q.samples
          /\ count' = q.count
    /\ out' = NoOut
    /\ HistOther("Reset", IF AllZero(Values(Ring)) THEN 0 ELSE 1)
    /\ tsnow' = clock
    /\ UNCHANGED <<frame, status, clock, interval>>
    /\ UNCHANGED concVars

Reset ==
    \* op.arg records whether some bucket was non-zero before the Reset
    /\ Built
    /\ LET q == tsReset(Ring)
       IN /\ samples' = q.samples
          /\ count' = q.count
    /\ out' = NoOut
    /\ HistOther("Reset", IF AllZero(Values(Ring)) THEN 0 ELSE 1)
    /\ UNCHANGED <<frame, status, clock, tsnow, interval>>
    /\ UNCHANGED concVars

GetTime ==
    /\ Built
    /\ out' = [kind |-> "GetTime", interval |-> 0, samples |-> <<>>, time |-> tsnow]
    /\ HistOther("GetTime", 0)
    /\ UNCHANGED serVars
    /\ UNCHANGED concVars

Sync(t) ==
    \* ts.now = syncMetric.(*timeseries).now, the other series' now being t
    /\ Built
    /\ tsnow' = t
    /\ out' = NoOut
    /\ HistOther("Sync", t)
    /\ UNCHANGED <<frame, status, clock, interval, samples, count>>
    /\ UNCHANGED concVars

SetClock(t) ==
    \* the package variable `now` starts returning t
    /\ Built
    /\ t # clock
    /\ clock' = t
    /\ op' = [name |-> "SetClock", arg |-> t]
    /\ prev' = <<>>
    /\ cur' = <<>>
    /\ fix' = FixNext(fix, "SetClock", t)
    /\ chain' = IF t < clock THEN <<>> ELSE chain
    /\ UNCHANGED <<frame, status, tsnow, interval, samples, count>>
    /\ out' = NoOut
    /\ shifts' = 0
    /\ UNCHANGED <<adds, base, addRun>>
    /\ UNCHANGED concVars

----------------------------------------------------------------------------
(* Spec: one series built by NewCounter(frameStart, frame), one caller. *)

SeriesFrames ==
    { <<"3", "s", "1", "s">>, <<"2", "s", "1", "s">>, <<"1", "s", "1", "s">>,
      <<"4", "s", "2", "s">> }

Threads == 1..NThreads

NoLocals ==
    [op |-> "none", n |-> 0, ptr |-> 0, old |-> 0, i |-> 0, j |-> 0, k |-> 0,
     len |-> 0, tmp |-> 0, vals |-> <<>>, owedO |-> 0, owedA |-> 0,
     cleanO |-> FALSE, cleanA |-> FALSE, retried |-> FALSE, used |-> FALSE]

NoCalls ==
    /\ mu = 0
    /\ pc = [t \in Threads |-> "idle"]
    /\ loc = [t \in Threads |-> NoLocals]
    /\ calls = 0
    /\ issued = 0
    /\ resetSeen = FALSE
    /\ prevRead = 0
    /\ creditO = 0
    /\ creditA = 0
    /\ lateAdd = FALSE

NoHist ==
    /\ out = NoOut
    /\ op = [name |-> "New", arg |-> 0]
    /\ shifts = 0
    /\ adds = 0
    /\ cur = <<>>
    /\ prev = <<>>
    /\ base = <<>>
    /\ addRun = <<>>
    /\ chain = <<>>

Init ==
    /\ frame \in SeriesFrames
    /\ clock = 0
    /\ LET ts == newTimeseries(0, frame)
       IN /\ status = ts.status
          /\ tsnow = ts.now
          /\ interval = ts.interval
          /\ samples = ts.samples
          /\ count = ts.count
    /\ NoHist
    /\ NoCalls
    /\ fix = IF frame = <<"3", "s", "1", "s">> THEN "s0" ELSE "off"

Next ==
    \/ \E n \in Deltas : Add(n)
    \/ String
    \/ GetCall
    \/ Reset
    \/ GetTime
    \/ \E t \in 0..MaxTime : Sync(t)
    \/ \E t \in 0..MaxTime : SetClock(t)

Spec == Init /\ [][Next]_vars

----------------------------------------------------------------------------
(* SpecNew: NewCounter(frameStart, frame) for every frame string over         *)
(* FrameChars of at most MaxFrameLen characters.                              *)

FrameChars == {"0", "1", "3", "s", "m", "q", "-"}

Frames == UNION { [1..k -> FrameChars] : k \in 0..MaxFrameLen }

NewCounter ==
    \* newMetric with one frame: newTimeseries(builder, frameStart, frames[0])
    /\ status = "unbuilt"
    /\ LET ts == newTimeseries(clock, frame)
       IN /\ status' = ts.status
          /\ tsnow' = ts.now
          /\ interval' = ts.interval
          /\ samples' = ts.samples
          /\ count' = ts.count
    /\ op' = [name |-> "New", arg |-> 0]
    /\ UNCHANGED <<frame, clock>>
    /\ UNCHANGED <<out, shifts, adds, cur, prev, base, addRun, fix, chain>>
    /\ UNCHANGED concVars

InitNew ==
    /\ frame \in Frames
    /\ status = "unbuilt"
    /\ clock = 0
    /\ tsnow = 0
    /\ interval = 0
    /\ samples = <<>>
    /\ count = <<>>
    /\ out = NoOut
    /\ op = [name |-> "none", arg |-> 0]
    /\ shifts = 0
    /\ adds = 0
    /\ cur = <<>>
    /\ prev = <<>>
    /\ base = <<>>
    /\ addRun = <<>>
    /\ chain = <<>>
    /\ fix = "off"
    /\ NoCalls

AddNew(n) ==
    \* the first Add on the series just built: ts.samples[0].Add(n) panics with
    \* an index out of range when the series has no bucket
    /\ Built
    /\ op.name = "New"
    /\ IF Len(samples) = 0
       THEN /\ status' = "panic"
            /\ UNCHANGED <<samples, count>>
       ELSE /\ status' = status
            /\ LET q == tsAdd(Ring, n)
               IN /\ samples' = q.samples
                  /\ count' = q.count
    /\ op' = [name |-> "Add", arg |-> n]
    /\ UNCHANGED <<frame, clock, tsnow, interval>>
    /\ UNCHANGED <<out, shifts, adds, cur, prev, base, addRun, fix, chain>>
    /\ UNCHANGED concVars

NextNew ==
    \/ NewCounter
    \/ AddNew(1)

SpecNew == InitNew /\ [][NextNew]_vars

----------------------------------------------------------------------------
(* Goroutines calling concurrently, one atomic operation or one memory access *)
(* of the ring per step.  counter.Add is shared by the bare counter           *)
(* (loc.op = "cAdd") and by timeseries.Add (loc.op = "tsAdd").                *)

Set(self, fields) ==
    \* loc with the given fields of self's locals replaced
    [loc EXCEPT ![self] = [f \in DOMAIN @ |-> IF f \in DOMAIN fields THEN fields[f] ELSE @[f]]]

Goto(self, label) == pc' = [pc EXCEPT ![self] = label]

CanCall(self) ==
    \* goroutines are interchangeable: they make their first calls in the order
    \* of their numbers
    /\ pc[self] = "idle"
    /\ calls < MaxCalls
    /\ \A t \in Threads : t < self => loc[t].used

Returned(self) ==
    \* the call's locals are gone
    [loc EXCEPT ![self] = [NoLocals EXCEPT !.used = TRUE, !.retried = loc[self].retried]]

CounterLoad(self) ==
    \* old := math.Float64frombits(atomic.LoadUint64(&c.count))
    /\ pc[self] = "add_load"
    /\ loc' = Set(self, [old |-> count[loc[self].ptr]])
    /\ Goto(self, "add_cas")
    /\ UNCHANGED <<serVars, histVars, mu, calls, issued, resetSeen, prevRead, creditO, creditA, lateAdd>>

casTarget_Store(cnt, l) ==
    [swapped |-> TRUE, count |-> [cnt EXCEPT ![l.ptr] = l.old + l.n]]

casTarget(cnt, l) ==
    \* atomic.CompareAndSwapUint64(&c.count, bits(old), bits(old + n))
    IF cnt[l.ptr] = l.old
    THEN [swapped |-> TRUE, count |-> [cnt EXCEPT ![l.ptr] = l.old + l.n]]
    ELSE [swapped |-> FALSE, count |-> cnt]

CounterCAS(self) ==
    /\ pc[self] = "add_cas"
    /\ LET r == casTarget(count, loc[self])
       IN /\ count' = r.count
          /\ Goto(self, IF ~r.swapped THEN "add_load"
                        ELSE IF loc[self].op = "tsAdd" THEN "add_unlock" ELSE "add_ret")
          /\ loc' = IF r.swapped THEN loc ELSE Set(self, [retried |-> TRUE])
          /\ lateAdd' = (lateAdd \/ (r.swapped /\ resetSeen /\ loc[self].op = "tsAdd"))
    /\ UNCHANGED <<frame, status, clock, tsnow, interval, samples>>
    /\ UNCHANGED <<histVars, mu, calls, issued, resetSeen, prevRead, creditO, creditA>>

----------------------------------------------------------------------------
(* SpecCounter: NewCounter(frameStart) with no frame returns a bare counter. *)

IsCounter == status = "counter"

CallCounterAdd(self, n) ==
    /\ IsCounter
    /\ CanCall(self)
    /\ calls' = calls + 1
    /\ issued' = issued + n
    /\ loc' = Set(self, [op |-> "cAdd", n |-> n, ptr |-> 1, retried |-> FALSE, used |-> TRUE])
    /\ Goto(self, "add_load")
    /\ op' = IF op.name = "Reset" THEN [name |-> "Add", arg |-> n]
             ELSE [name |-> "mixed", arg |-> 0]
    /\ UNCHANGED <<out, shifts, adds, cur, prev, base, addRun, fix, chain>>
    /\ UNCHANGED <<serVars, mu, resetSeen, prevRead, creditO, creditA, lateAdd>>

CounterAddReturn(self) ==
    /\ pc[self] = "add_ret"
    /\ loc[self].op = "cAdd"
    /\ loc' = Returned(self)
    /\ Goto(self, "idle")
    /\ UNCHANGED <<serVars, histVars, mu, calls, issued, resetSeen, prevRead, creditO, creditA, lateAdd>>

CounterReset(self) ==
    \* atomic.StoreUint64(&c.count, math.Float64bits(0))
    /\ IsCounter
    /\ CanCall(self)
    /\ calls' = calls + 1
    /\ resetSeen' = TRUE
    /\ count' = counterReset(count, 1)
    /\ loc' = Set(self, [used |-> TRUE])
    /\ op' = IF \E t \in Threads : pc[t] # "idle" THEN [name |-> "mixed", arg |-> 0]
             ELSE [name |-> "Reset", arg |-> IF op.name = "Reset" THEN op.arg + 1 ELSE 1]
    /\ UNCHANGED <<out, shifts, adds, cur, prev, base, addRun, fix, chain>>
    /\ UNCHANGED <<frame, status, clock, tsnow, interval, samples>>
    /\ UNCHANGED <<mu, pc, issued, prevRead, creditO, creditA, lateAdd>>

CounterGet(self) ==
    \* counter.Get / String: one atomic load
    /\ IsCounter
    /\ CanCall(self)
    /\ calls' = calls + 1
    /\ loc' = Set(self, [vals |-> <<count[1]>>, used |-> TRUE])
    /\ UNCHANGED <<serVars, histVars, mu, pc, issued, resetSeen, prevRead, creditO, creditA, lateAdd>>

InitCounter ==
    /\ frame = <<>>
    /\ status = "counter"
    /\ clock = 0
    /\ tsnow = 0
    /\ interval = 0
    /\ samples = <<>>
    /\ count = <<0>>
    /\ NoHist
    /\ fix = "off"
    /\ NoCalls

NextCounter ==
    \E self \in Threads :
        \/ \E n \in Deltas : CallCounterAdd(self, n)
        \/ CounterLoad(self)
        \/ CounterCAS(self)
        \/ CounterAddReturn(self)
        \/ CounterReset(self)
        \/ CounterGet(self)

SpecCounter == InitCounter /\ [][NextCounter]_vars

----------------------------------------------------------------------------
(* SpecConc: goroutines calling Add, Reset and String on one timeseries while *)
(* the clock advances.                                                        *)

ResetActive == \E t \in Threads : pc[t] \in {"rst_read", "rst_store"}

AddInFlight(t) ==
    pc[t] \in {"add_lock", "add_load", "add_cas", "add_unlock", "add_ret"}

\* History: a read took the lock, so Adds still in flight and reads still
\* waiting no longer have the read before it as their previous read.
AfterReadLock(self, mine) ==
    [t \in Threads |->
        IF t = self THEN [f \in DOMAIN loc[t] |-> IF f \in DOMAIN mine THEN mine[f] ELSE loc[t][f]]
        ELSE IF AddInFlight(t) THEN [loc[t] EXCEPT !.cleanA = FALSE]
        ELSE IF pc[t] = "rd_lock" THEN [loc[t] EXCEPT !.owedA = 0]
        ELSE loc[t]]

\* History: a Reset began, so no Add made so far is owed to any later read.
AfterResetCall(self, mine) ==
    [t \in Threads |->
        IF t = self THEN [f \in DOMAIN loc[t] |-> IF f \in DOMAIN mine THEN mine[f] ELSE loc[t][f]]
        ELSE [loc[t] EXCEPT !.cleanO = FALSE, !.cleanA = FALSE, !.owedO = 0, !.owedA = 0]]

CallAdd(self, n) ==
    \* timeseries.Add(n) is invoked
    /\ Built
    /\ CanCall(self)
    /\ calls' = calls + 1
    /\ loc' = Set(self, [op |-> "tsAdd", n |-> n, retried |-> FALSE, used |-> TRUE,
                         cleanO |-> ~ResetActive,
                         cleanA |-> ~ResetActive /\ prevRead = 0])
    /\ Goto(self, "add_lock")
    /\ UNCHANGED <<serVars, histVars, mu, issued, resetSeen, prevRead, creditO, creditA, lateAdd>>

AddLock_Tail(self) ==
    /\ pc[self] = "add_lock"
    /\ mu = 0
    /\ mu' = self
    /\ Len(samples) >= 1
    /\ loc' = Set(self, [ptr |-> samples[Len(samples)]])
    /\ Goto(self, "add_load")
    /\ UNCHANGED <<serVars, histVars, calls, issued, resetSeen, prevRead, creditO, creditA, lateAdd>>

AddLock(self) ==
    \* ts.Lock(), and the receiver of ts.samples[0].Add(n): only the holder of
    \* the lock writes ts.samples, so this read has one outcome
    /\ pc[self] = "add_lock"
    /\ mu = 0
    /\ mu' = self
    /\ Len(samples) >= 1
    /\ loc' = Set(self, [ptr |-> samples[1]])
    /\ Goto(self, "add_load")
    /\ UNCHANGED <<serVars, histVars, calls, issued, resetSeen, prevRead, creditO, creditA, lateAdd>>

Unlock_Keep(self) ==
    /\ pc[self] \in {"add_unlock", "rd_unlock"}
    /\ mu = self
    /\ Goto(self, IF pc[self] = "add_unlock" THEN "add_ret" ELSE "rd_ret")
    /\ UNCHANGED <<serVars, histVars, mu, loc, calls, issued, resetSeen, prevRead, creditO, creditA, lateAdd>>

Unlock(self) ==
    \* the deferred ts.Unlock() of Add and of MarshalJSON
    /\ pc[self] \in {"add_unlock", "rd_unlock"}
    /\ mu = self
    /\ mu' = 0
    /\ Goto(self, IF pc[self] = "add_unlock" THEN "add_ret" ELSE "rd_ret")
    /\ UNCHANGED <<serVars, histVars, loc, calls, issued, resetSeen, prevRead, creditO, creditA, lateAdd>>

AddReturn(self) ==
    \* timeseries.Add returns to its caller
    /\ pc[self] = "add_ret"
    /\ loc[self].op = "tsAdd"
    /\ creditO' = IF loc[self].cleanO THEN creditO + loc[self].n ELSE creditO
    /\ creditA' = IF loc[self].cleanA THEN creditA + loc[self].n ELSE creditA
    /\ loc' = Returned(self)
    /\ Goto(self, "idle")
    /\ UNCHANGED <<serVars, histVars, mu, calls, issued, resetSeen, prevRead, lateAdd>>

CallReset(self) ==
    \* timeseries.Reset() is invoked: the range loop starts, no lock is taken
    /\ Built
    /\ CanCall(self)
    /\ calls' = calls + 1
    /\ resetSeen' = TRUE
    /\ creditO' = 0
    /\ creditA' = 0
    /\ loc' = AfterResetCall(self, [op |-> "Reset", i |-> 1, len |-> Len(samples),
                                     vals |-> samples, used |-> TRUE])
    /\ Goto(self, IF Len(samples) = 0 THEN "idle" ELSE "rst_read")
    /\ UNCHANGED <<serVars, histVars, mu, issued, prevRead, lateAdd>>

RacyLoad(self, i) ==
    \* what an unsynchronised read of ts.samples[i] can observe: the slot as it
    \* is now, or as it was when the call began (loc.vals) if a roll has written
    \* it since; nothing orders that write before this read
    {samples[i], loc[self].vals[i]}

ResetRead(self) ==
    \* s := ts.samples[i] in a Reset called without the lock: a data race with
    \* the writes of a roll
    /\ pc[self] = "rst_read"
    /\ \E p \in RacyLoad(self, loc[self].i) : loc' = Set(self, [ptr |-> p])
    /\ Goto(self, "rst_store")
    /\ UNCHANGED <<serVars, histVars, mu, calls, issued, resetSeen, prevRead, creditO, creditA, lateAdd>>

ResetStore(self) ==
    \* s.Reset(), then the next slot or the end of the loop
    /\ pc[self] = "rst_store"
    /\ count' = counterReset(count, loc[self].ptr)
    /\ loc' = IF loc[self].i >= loc[self].len
              THEN Returned(self)
              ELSE Set(self, [i |-> loc[self].i + 1])
    /\ Goto(self, IF loc[self].i < loc[self].len THEN "rst_read" ELSE "idle")
    /\ UNCHANGED <<frame, status, clock, tsnow, interval, samples>>
    /\ UNCHANGED <<histVars, mu, calls, issued, resetSeen, prevRead, creditO, creditA, lateAdd>>

RollReset(self) ==
    \* one pass of the loop of the ts.Reset() that roll calls with the lock
    \* held: ts.samples[i].Reset()
    /\ pc[self] = "rr_slot"
    /\ count' = counterReset(count, samples[loc[self].i])
    /\ loc' = Set(self, [i |-> loc[self].i + 1])
    /\ Goto(self, IF loc[self].i < loc[self].len THEN "rr_slot" ELSE "rd_unlock")
    /\ UNCHANGED <<frame, status, clock, tsnow, interval, samples>>
    /\ UNCHANGED <<histVars, mu, calls, issued, resetSeen, prevRead, creditO, creditA, lateAdd>>

CallString(self) ==
    \* timeseries.String() / MarshalJSON() is invoked
    /\ Built
    /\ CanCall(self)
    /\ calls' = calls + 1
    /\ loc' = Set(self, [op |-> "String", vals |-> <<>>, used |-> TRUE,
                         owedO |-> creditO, owedA |-> creditA])
    /\ Goto(self, "rd_lock")
    /\ UNCHANGED <<serVars, histVars, mu, issued, resetSeen, prevRead, creditO, creditA, lateAdd>>

ReadLock(self) ==
    \* ts.Lock()
    /\ pc[self] = "rd_lock"
    /\ mu = 0
    /\ mu' = self
    /\ prevRead' = self
    /\ creditA' = 0
    /\ loc' = AfterReadLock(self, [i |-> 1])
    /\ Goto(self, IF Len(samples) = 0 THEN "rd_now" ELSE "rd_val")
    /\ UNCHANGED <<serVars, histVars, calls, issued, resetSeen, creditO, lateAdd>>

ReadVal(self) ==
    \* json.Marshal reaches samples[i]: counter.MarshalJSON loads its value
    /\ pc[self] = "rd_val"
    /\ loc' = Set(self, [vals |-> Append(loc[self].vals, count[samples[loc[self].i]]),
                         i |-> loc[self].i + 1])
    /\ Goto(self, IF loc[self].i < Len(samples) THEN "rd_val" ELSE "rd_now")
    /\ UNCHANGED <<serVars, histVars, mu, calls, issued, resetSeen, prevRead, creditO, creditA, lateAdd>>

RollNow(self, t) ==
    \* roll(): t := now(); roll := ...; ts.now = t; the branch on roll.
    \* Time has passed since now() was last called: it returns some t >= clock.
    /\ pc[self] = "rd_now"
    /\ t >= clock
    /\ clock' = t
    /\ LET k == rollCount(t, tsnow, interval)
       IN /\ loc' = Set(self, [k |-> k, i |-> IF k >= Len(samples) THEN 1 ELSE 0,
                               len |-> Len(samples)])
          /\ Goto(self, IF k <= 0 THEN "rd_unlock"
                        ELSE IF k >= Len(samples)
                             THEN (IF Len(samples) = 0 THEN "rd_unlock" ELSE "rr_slot")
                        ELSE "rot_tmp")
    /\ tsnow' = t
    /\ UNCHANGED <<frame, status, interval, samples, count>>
    /\ UNCHANGED <<histVars, mu, calls, issued, resetSeen, prevRead, creditO, creditA, lateAdd>>

RotTmp(self) ==
    \* tmp := ts.samples[n-1], then the first ts.samples[j] = ts.samples[j-1]
    \* (j = n-1); the read of tmp is of a slot only this goroutine writes
    /\ pc[self] = "rot_tmp"
    /\ samples' = [samples EXCEPT ![Len(samples)] = samples[Len(samples) - 1]]
    /\ loc' = Set(self, [tmp |-> samples[Len(samples)], j |-> Len(samples) - 1])
    /\ Goto(self, IF Len(samples) - 1 > 1 THEN "rot_shift" ELSE "rot_head")
    /\ UNCHANGED <<frame, status, clock, tsnow, interval, count>>
    /\ UNCHANGED <<histVars, mu, calls, issued, resetSeen, prevRead, creditO, creditA, lateAdd>>

RotShift(self) ==
    \* ts.samples[j] = ts.samples[j-1]; j--
    /\ pc[self] = "rot_shift"
    /\ samples' = [samples EXCEPT ![loc[self].j] = samples[loc[self].j - 1]]
    /\ loc' = Set(self, [j |-> loc[self].j - 1])
    /\ Goto(self, IF loc[self].j - 1 > 1 THEN "rot_shift" ELSE "rot_head")
    /\ UNCHANGED <<frame, status, clock, tsnow, interval, count>>
    /\ UNCHANGED <<histVars, mu, calls, issued, resetSeen, prevRead, creditO, creditA, lateAdd>>

RotHead_Skip(self) ==
    /\ pc[self] = "rot_head"
    /\ Goto(self, "rot_reset")
    /\ UNCHANGED <<serVars, histVars, mu, loc, calls, issued, resetSeen, prevRead, creditO, creditA, lateAdd>>

RotHead(self) ==
    \* ts.samples[0] = tmp
    /\ pc[self] = "rot_head"
    /\ samples' = [samples EXCEPT ![1] = loc[self].tmp]
    /\ Goto(self, "rot_reset")
    /\ UNCHANGED <<frame, status, clock, tsnow, interval, count>>
    /\ UNCHANGED <<histVars, mu, loc, calls, issued, resetSeen, prevRead, creditO, creditA, lateAdd>>

RotReset(self) ==
    \* ts.samples[0].Reset(); i++
    /\ pc[self] = "rot_reset"
    /\ count' = counterReset(count, samples[1])
    /\ loc' = Set(self, [i |-> loc[self].i + 1])
    /\ Goto(self, IF loc[self].i + 1 < loc[self].k THEN "rot_tmp" ELSE "rd_unlock")
    /\ UNCHANGED <<frame, status, clock, tsnow, interval, samples>>
    /\ UNCHANGED <<histVars, mu, calls, issued, resetSeen, prevRead, creditO, creditA, lateAdd>>

ReadReturn(self) ==
    \* MarshalJSON returns val to its caller
    /\ pc[self] = "rd_ret"
    /\ prevRead' = IF prevRead = self THEN 0 ELSE prevRead
    /\ creditO' = 0
    /\ loc' = Returned(self)
    /\ Goto(self, "idle")
    /\ UNCHANGED <<serVars, histVars, mu, calls, issued, resetSeen, creditA, lateAdd>>

CallSync(self, t) ==
    \* timeseries.Sync(m) is invoked, m's reference time being t
    /\ Built
    /\ CanCall(self)
    /\ calls' = calls + 1
    /\ loc' = Set(self, [op |-> "Sync", n |-> t, used |-> TRUE])
    /\ Goto(self, "sy_lock")
    /\ UNCHANGED <<serVars, histVars, mu, issued, resetSeen, prevRead, creditO, creditA, lateAdd>>

SyncLock(self) ==
    \* ts.Lock(); ts.now = syncMetric.(*timeseries).now
    /\ pc[self] = "sy_lock"
    /\ mu = 0
    /\ mu' = self
    /\ tsnow' = loc[self].n
    /\ Goto(self, "sy_unlock")
    /\ UNCHANGED <<frame, status, clock, interval, samples, count>>
    /\ UNCHANGED <<histVars, loc, calls, issued, resetSeen, prevRead, creditO, creditA, lateAdd>>

CallGetTime(self) ==
    \* timeseries.GetTime() is invoked
    /\ Built
    /\ CanCall(self)
    /\ calls' = calls + 1
    /\ loc' = Set(self, [op |-> "GetTime", used |-> TRUE])
    /\ Goto(self, "gt_lock")
    /\ UNCHANGED <<serVars, histVars, mu, issued, resetSeen, prevRead, creditO, creditA, lateAdd>>

GetTimeLock(self) ==
    \* ts.Lock(); the value of ts.now is taken for the return
    /\ pc[self] = "gt_lock"
    /\ mu = 0
    /\ mu' = self
    /\ loc' = Set(self, [tmp |-> tsnow])
    /\ Goto(self, "sy_unlock")
    /\ UNCHANGED <<serVars, histVars, calls, issued, resetSeen, prevRead, creditO, creditA, lateAdd>>

SyncUnlock(self) ==
    \* the deferred ts.Unlock() of Sync and of GetTime, and the return
    /\ pc[self] = "sy_unlock"
    /\ mu = self
    /\ mu' = 0
    /\ loc' = Returned(self)
    /\ Goto(self, "idle")
    /\ UNCHANGED <<serVars, histVars, calls, issued, resetSeen, prevRead, creditO, creditA, lateAdd>>

ConcDeltas == {1}

ConcFrames == { <<"3", "s", "1", "s">>, <<"2", "s", "1", "s">> }

InitConc ==
    /\ frame \in ConcFrames
    /\ clock = 0
    /\ LET ts == newTimeseries(0, frame)
       IN /\ status = ts.status
          /\ tsnow = ts.now
          /\ interval = ts.interval
          /\ samples = ts.samples
          /\ count = ts.count
    /\ NoHist
    /\ fix = "off"
    /\ NoCalls

NextConc ==
    \E self \in Threads :
        \/ \E n \in ConcDeltas : CallAdd(self, n)
        \/ AddLock(self)
        \/ CounterLoad(self)
        \/ CounterCAS(self)
        \/ Unlock(self)
        \/ AddReturn(self)
        \/ CallReset(self)
        \/ ResetRead(self)
        \/ ResetStore(self)
        \/ RollReset(self)
        \/ CallString(self)
        \/ ReadLock(self)
        \/ ReadVal(self)
        \/ \E t \in 0..MaxConcTime : RollNow(self, t)
        \/ RotTmp(self)
        \/ RotShift(self)
        \/ RotHead(self)
        \/ RotReset(self)
        \/ ReadReturn(self)

SpecConc == InitConc /\ [][NextConc]_vars

----------------------------------------------------------------------------
(* SpecLive: goroutines making finitely many calls of every operation, on a   *)
(* timeseries or on a bare counter, under a scheduler that lets every         *)
(* goroutine that can take a step take one eventually.                        *)

Call(self) ==
    \* a goroutine invokes an operation
    \/ \E n \in ConcDeltas : CallAdd(self, n)
    \/ CallReset(self)
    \/ CallString(self)
    \/ \E t \in 0..MaxConcTime : CallSync(self, t)
    \/ CallGetTime(self)
    \/ \E n \in ConcDeltas : CallCounterAdd(self, n)
    \/ CounterReset(self)
    \/ CounterGet(self)

Proceed(self) ==
    \* the next step of the call a goroutine is in
    \/ AddLock(self)
    \/ CounterLoad(self)
    \/ CounterCAS(self)
    \/ Unlock(self)
    \/ AddReturn(self)
    \/ CounterAddReturn(self)
    \/ ResetRead(self)
    \/ ResetStore(self)
    \/ RollReset(self)
    \/ ReadLock(self)
    \/ ReadVal(self)
    \/ \E t \in 0..MaxConcTime : RollNow(self, t)
    \/ RotTmp(self)
    \/ RotShift(self)
    \/ RotHead(self)
    \/ RotReset(self)
    \/ ReadReturn(self)
    \/ SyncLock(self)
    \/ GetTimeLock(self)
    \/ SyncUnlock(self)

InitLive == InitConc \/ InitCounter

NextLive == \E self \in Threads : Call(self) \/ Proceed(self)

Fairness == \A self \in Threads : WF_vars(Proceed(self))

SpecLive == InitLive /\ [][NextLive]_vars /\ Fairness

----------------------------------------------------------------------------
(* Claims checked under Spec. *)

ShiftVals(v, k) ==
    \* v moved k slots toward the tail, zeros in the first k slots
    IF k <= 0 THEN v
    ELSE [i \in 1..Len(v) |-> IF i <= k THEN 0 ELSE v[i - k]]

\* C2 as stated: a read rolls first, so the buckets it returns are the buckets
\* as they stand after rotating for the clock value of that read.
C2_ReadRollsBeforeOutput ==
    cur # <<>> => cur[1].out = Values(Ring)

\* C2 amended: a read returns the buckets as they stood before its own roll,
\* and then rolls for the clock value of that read (the rotation shows in the
\* state it leaves, and so in the next read).
C2_ReadOutputsThenRolls ==
    cur # <<>> =>
        /\ cur[1].out = cur[1].before
        /\ Values(Ring) = ShiftVals(cur[1].before, shifts)
        /\ shifts = rollCount(cur[1].clk, cur[1].ref, interval)
        /\ tsnow = cur[1].clk

C2_Witness ==
    /\ cur # <<>>
    /\ shifts >= 1
    /\ cur[1].out # Values(Ring)

\* C3: after the clock advanced k >= 1 intervals since the previous read, the
\* first read returns the values as they were before the advance (Adds since
\* then in index 0), and a second read at the same clock value returns them
\* moved k slots toward the tail, zeros in the first k slots.
C3_KeptUntilRead ==
    /\ (cur # <<>> /\ cur[1].adv >= 1) => cur[1].out = cur[1].exp
    /\ (cur # <<>> /\ prev # <<>> /\ prev[1].adv >= 1) =>
           /\ cur[1].clk = prev[1].clk
           /\ cur[1].out = ShiftVals(prev[1].out, prev[1].adv)

C3_Witness ==
    /\ cur # <<>>
    /\ prev # <<>>
    /\ prev[1].adv >= 1
    /\ prev[1].adv < Len(samples)
    /\ ~AllZero(cur[1].out)
    /\ cur[1].out # prev[1].out

\* C4 as stated: in the sequence t=0 Add(1), read; t=1 read; Add(5), read;
\* t=3 read, the four reads return [1,0,0], [1,0,0], [5,1,0], [0,0,5].
C4_FourReads ==
    /\ fix = "r1" => OutCounts(out) = <<1, 0, 0>>
    /\ fix = "r2" => OutCounts(out) = <<1, 0, 0>>
    /\ fix = "r3" => OutCounts(out) = <<5, 1, 0>>
    /\ fix = "r4" => OutCounts(out) = <<0, 0, 5>>

\* C4 amended: the four reads return [1,0,0], [1,0,0], [5,1,0], [5,1,0], and a
\* fifth read, again at t=3, returns [0,0,5].
C4_FiveReads ==
    /\ fix = "r1" => OutCounts(out) = <<1, 0, 0>>
    /\ fix = "r2" => OutCounts(out) = <<1, 0, 0>>
    /\ fix = "r3" => OutCounts(out) = <<5, 1, 0>>
    /\ fix = "r4" => OutCounts(out) = <<5, 1, 0>>
    /\ fix = "r5" => OutCounts(out) = <<0, 0, 5>>

C4_Witness == fix = "r5" /\ clock = 3 /\ interval = Second /\ Len(samples) = 3

\* C5 as stated: Add(1), read, clock one interval on, Add(5) with no read in
\* between, read: that read shows [5,1,0].
C5_SplitBuckets ==
    /\ fix = "r1" => OutCounts(out) = <<1, 0, 0>>
    /\ fix = "lr" => OutCounts(out) = <<5, 1, 0>>

\* C5 amended: that read shows [6,0,0], the 5 summed with the 1 in the head
\* bucket, and the read after it, at the same clock value, shows [0,6,0].
C5_SummedInHead ==
    /\ fix = "r1" => OutCounts(out) = <<1, 0, 0>>
    /\ fix = "lr" => OutCounts(out) = <<6, 0, 0>>
    /\ fix = "lr2" => OutCounts(out) = <<0, 6, 0>>

C5_Witness == fix = "lr2" /\ clock = 1 /\ Len(samples) = 3

\* C6: Add changes only the value of the bucket at index 0: over a run of Adds
\* (whatever the clock does meanwhile) the ring order, the reference time and
\* buckets 1..N-1 stay as they were and the head grows by the sum of the deltas.
C6_AddOnlyHead ==
    addRun # <<>> =>
        /\ samples = addRun[1].samples
        /\ tsnow = addRun[1].now
        /\ Len(samples) = Len(addRun[1].vals)
        /\ Values(Ring) = [addRun[1].vals EXCEPT ![1] = @ + addRun[1].sum]

C6_Witness ==
    /\ addRun # <<>>
    /\ addRun[1].calls >= 2
    /\ rollCount(clock, tsnow, interval) >= 1
    /\ \E i \in 2..Len(samples) : addRun[1].vals[i] # 0

\* C7: a roll with shifts >= N leaves N buckets, all zero; the result is the
\* same for shifts = N and for every larger value (up to N+5 here), and the
\* same as N single-slot rotations.
C7_FullReset ==
    LET n == Len(samples)
    IN /\ \A k \in n..(n + 5) :
              LET q == rollRing(Ring, k)
              IN /\ q = rollRing(Ring, n)
                 /\ Len(q.samples) = n
                 /\ AllZero(Values(q))
       /\ rollRing(Ring, n) = rotateTimes(Ring, n)
       /\ (cur # <<>> /\ shifts >= n) =>
              /\ AllZero(Values(Ring))
              /\ Len(samples) = Len(cur[1].before)
              /\ samples = (rotateTimes([samples |-> cur[1].ring, count |-> count], n)).samples

C7_Witness ==
    /\ cur # <<>>
    /\ Len(samples) >= 2
    /\ shifts >= Len(samples)
    /\ ~AllZero(cur[1].before)

MovedTowardTail(old, new, k) ==
    \* indices counted from 0 as in the code: new[i] = old[i - k] for k <= i < N
    \* and new[i] = 0 for i < k
    /\ Len(new) = Len(old)
    /\ \A i \in 0..(Len(old) - 1) :
           new[i + 1] = IF i >= k THEN old[i + 1 - k] ELSE 0

\* C13: when roll computes 0 < shifts < N, the bucket values after the roll
\* are the values before it moved shifts slots toward the tail, zeros in the
\* first shifts slots, the last shifts old values gone: for the roll of every
\* read made, and for every shifts in 1..N-1 applied to every reachable ring.
C13_PartialRotation ==
    /\ (cur # <<>> /\ 0 < shifts /\ shifts < Len(samples)) =>
           MovedTowardTail(cur[1].before, Values(Ring), shifts)
    /\ \A k \in 1..(Len(samples) - 1) :
           MovedTowardTail(Values(Ring), Values(rollRing(Ring, k)), k)

C13_Witness ==
    /\ cur # <<>>
    /\ Len(samples) = 3
    /\ shifts = 2
    /\ cur[1].before[1] # 0
    /\ cur[1].before[2] # 0
    /\ Values(Ring)[3] = cur[1].before[1]

\* C14: in every reachable state the reference time rounded to the interval
\* is <= the clock rounded to the interval, and the roll of a read never
\* leaves the reference time earlier than it was before that roll, also when
\* the clock stepped backward between reads.
C14_ReferenceNeverBackward ==
    /\ Round(tsnow, interval) <= Round(clock, interval)
    /\ cur # <<>> => tsnow >= cur[1].ref

\* C15: a read made with the clock earlier than the reference time (negative
\* shifts) or with zero shifts leaves every bucket value and the ring order
\* as they were, and returns its output normally.
C15_NoOpWhenNotAdvanced ==
    cur # <<>> =>
        /\ cur[1].clk < cur[1].ref => shifts <= 0
        /\ shifts <= 0 =>
               /\ samples = cur[1].ring
               /\ Values(Ring) = cur[1].before
               /\ status = "ok"
               /\ IsRead(out.kind)
               /\ OutCounts(out) = cur[1].before

C15_Witness ==
    /\ cur # <<>>
    /\ cur[1].clk < cur[1].ref
    /\ shifts < 0
    /\ ~AllZero(cur[1].before)
    /\ ~AllZero(Values(Ring))

\* C16: a Reset of a series run on its own sets every one of the N buckets
\* to zero and leaves the reference time, the interval, the number of buckets
\* and the ring order as they were, so the shifts the next read computes are
\* the ones it would have computed without the Reset.
C16_ResetKeepsReference ==
    [][op'.name = "Reset" =>
          /\ AllZero(Values([samples |-> samples', count |-> count']))
          /\ Len(samples') = Len(samples)
          /\ samples' = samples
          /\ tsnow' = tsnow
          /\ interval' = interval
          /\ rollCount(clock', tsnow', interval') = rollCount(clock, tsnow, interval)]_vars

C16_Witness ==
    /\ op.name = "Reset"
    /\ op.arg = 1
    /\ AllZero(Values(Ring))
    /\ Len(samples) >= 2
    /\ rollCount(clock, tsnow, interval) >= 1

\* C19: rotation is path-independent for a non-decreasing clock: chain holds
\* the bucket values left by a read at time t_a; after any further reads, the
\* clock never stepping back and no Add, Reset or Sync in between, the last of
\* them at time t_b, the value that was at index i is at index
\* i + (round(t_b) - round(t_a)) / interval when this is < N and is gone
\* otherwise, however many reads were made in between and whenever.
C19_PathIndependent ==
    (chain # <<>> /\ cur # <<>>) =>
        /\ tsnow = cur[1].clk
        /\ tsnow >= chain[1].t
        /\ MovedTowardTail(chain[1].vals, Values(Ring),
               (Round(tsnow, interval) - Round(chain[1].t, interval)) \div interval)

C19_Witness ==
    /\ chain # <<>>
    /\ cur # <<>>
    /\ Len(samples) = 3
    /\ (Round(tsnow, interval) - Round(chain[1].t, interval)) \div interval = 2
    /\ shifts = 1
    /\ chain[1].vals[1] # 0
    /\ Values(Ring)[3] = chain[1].vals[1]

----------------------------------------------------------------------------
(* Claims checked under SpecNew. *)

SpecTotal(p) == units(p.totalUnit) * p.totalNum

SpecInterval(p) == units(p.intervalUnit) * p.intervalNum

\* C10: a series built from a frame with total duration T and interval I
\* (interval 1 minute when unspecified, total 15 intervals when unspecified)
\* has N = floor(T / I) buckets, but at least 1, all of them zero.
C10_BucketsClampedToOne ==
    LET p == Sscanf(frame)
        I == IF SpecInterval(p) = 0 THEN Minute ELSE SpecInterval(p)
        T == IF SpecTotal(p) = 0 THEN 15 * I ELSE SpecTotal(p)
    IN (status # "unbuilt" /\ T > 0 /\ I > 0) =>
           /\ status = "ok"
           /\ interval = I
           /\ Len(samples) = (IF T \div I < 1 THEN 1 ELSE T \div I)
           /\ AllZero(Values(Ring))

\* C11: construction never fails: when the interval or the total duration of
\* the frame is non-positive or cannot be parsed, that field takes its default
\* (interval 1 minute, total 15 intervals) and the series is usable: it has at
\* least one bucket and an Add on it succeeds.
C11_DefaultsWhenNotPositive ==
    LET p == Sscanf(frame)
    IN (status # "unbuilt" /\ (SpecInterval(p) <= 0 \/ SpecTotal(p) <= 0)) =>
           /\ status = "ok"
           /\ SpecInterval(p) <= 0 => interval = Minute
           /\ SpecTotal(p) <= 0 => Len(samples) = 15
           /\ Len(samples) >= 1

----------------------------------------------------------------------------
(* Claims checked under SpecCounter. *)

AllIdle == \A t \in Threads : pc[t] = "idle"

\* C1: once every concurrent Add(d_i) on a bare counter has returned, and no
\* Reset was called, the counter's value is the sum of all d_i.
C1_NoLostUpdate ==
    (IsCounter /\ AllIdle /\ ~resetSeen) => count[1] = issued

C1_Witness ==
    /\ IsCounter
    /\ AllIdle
    /\ ~resetSeen
    /\ calls = MaxCalls
    /\ count[1] = issued
    /\ \E t \in Threads : loc[t].retried

\* C12: on a bare counter, after a Reset made while no Add is in progress,
\* and after any number of further Resets, the value is 0 whatever it was
\* before (a second Reset changes nothing); a single Add(x) after that gives
\* the value x once it has returned.  op counts the Resets of such a run
\* (op.arg) and then holds the x of the one Add that followed.
C12_ResetIdempotent ==
    IsCounter =>
        /\ op.name = "Reset" => count[1] = 0
        /\ counterReset(counterReset(count, 1), 1) = counterReset(count, 1)
        /\ (counterReset(count, 1))[1] = 0
        /\ (op.name = "Add" /\ AllIdle) => count[1] = op.arg

C12_Witness ==
    /\ IsCounter
    /\ op.name = "Add"
    /\ AllIdle
    /\ count[1] = op.arg
    /\ issued > op.arg

----------------------------------------------------------------------------
(* Claims checked under SpecConc. *)

InReset(t) == pc[t] \in {"rst_read", "rst_store"}

InRoll(t) == pc[t] \in {"rr_slot", "rot_tmp", "rot_shift", "rot_head", "rot_reset"}

InRing(t) ==
    \* between the first and the last access a call makes to the bucket ring
    \/ pc[t] \in {"add_load", "add_cas", "add_unlock"}
    \/ pc[t] \in {"rd_val", "rd_now", "rd_unlock"}
    \/ InRoll(t)
    \/ InReset(t)

\* C8: Add, Reset and the reads of one series all run under its lock: no two
\* of them touch the bucket ring at the same time, and no Reset iterates over
\* the ring while a roll is rearranging it.
C8_RingUnderLock ==
    /\ \A t, u \in Threads : (InRing(t) /\ InRing(u)) => t = u
    /\ \A t, u \in Threads : ~(InReset(t) /\ InRoll(u))

Reported(t) ==
    \* t's read has loaded the head bucket's count for its output
    /\ loc[t].op = "String"
    /\ Len(loc[t].vals) >= 1

\* C9 as stated: the head count a read S reports includes every Add that
\* returned before S began and after the previous read returned (no Reset in
\* between).
C9_ReturnedAddsInHead ==
    \A t \in Threads : Reported(t) => loc[t].vals[1] >= loc[t].owedO

\* C9 amended: the head count a read S reports includes every Add that was
\* invoked after the previous read returned and returned before S began (no
\* Reset in between, no other read taking the lock between that Add's
\* invocation and S).
C9_InvokedAddsInHead ==
    \A t \in Threads : Reported(t) => loc[t].vals[1] >= loc[t].owedA

C17_RingIsPermutation ==
    (Built /\ mu = 0) =>
        /\ Len(samples) = Len(count)
        /\ Len(samples) = FrameN(Sscanf(frame), interval)
        /\ \A id \in 1..Len(count) :
               Cardinality({i \in 1..Len(samples) : samples[i] = id}) = 1

C17_Witness ==
    /\ Built
    /\ AllIdle
    /\ mu = 0
    /\ Len(samples) = 3
    /\ samples[1] # 1
    /\ resetSeen
    /\ \E id \in 1..Len(count) : count[id] # 0

\* C18: with finitely many invocations made by concurrent goroutines on a
\* counter or a series, under a fair scheduler every invocation eventually
\* returns: the compare-and-swap loop of Add ends, the lock is released by
\* whoever took it, and no goroutine waits for a lock it holds itself.
C18_EveryCallReturns ==
    \A t \in Threads : (pc[t] # "idle") ~> (pc[t] = "idle")

C18_Witness ==
    \E t, u \in Threads :
        /\ t # u
        /\ mu = u
        /\ pc[t] \in {"add_lock", "rd_lock", "sy_lock", "gt_lock"}
        /\ InRoll(u)
        /\ loc[u].k >= Len(samples)

C9_Witness ==
    \E t \in Threads :
        /\ Reported(t)
        /\ loc[t].owedA >= 2
        /\ loc[t].vals[1] >= 2
        /\ clock >= 1

====
